---------------------------- MODULE Spec2Model ----------------------------
(***************************************************************************)
(* Model of the market-data feed connection manager and subscription       *)
(* registry of trading_app (pubsub/wss_handler.py), with the feed-thread   *)
(* start-up of main.py.                                                    *)
(*                                                                         *)
(* Each function body is modelled as declared in its own file.  Python's   *)
(* binding of positional arguments at a call between files is not          *)
(* modelled: main.py:201 passes (access_token, broadcast_callback,         *)
(* sub_queue) to start_wss_connection(access_token) and wss_handler.py:179 *)
(* passes (symbol) to get_instrument_key(db, app_id, symbol); the callee's *)
(* body is taken with the parameters it declares.                          *)
(***************************************************************************)
EXTENDS Integers, Sequences, FiniteSets, TLC

VARIABLES
    pc,                   \* position of start_wss_connection in its thread
    RECONNECT_ATTEMPTS,   \* wss_handler.py:45, module global
    WEBSOCKET_CLIENT,     \* wss_handler.py:44, None or the open connection
    ACTIVE_SUBSCRIPTIONS, \* wss_handler.py:43, a Python set of instrument keys
    wss_url,              \* local of start_wss_connection (line 117)
    transportOpen,        \* the connection's .open attribute
    sent,                 \* send() calls issued on feed connections, in order
    processed,            \* calls of process_live_feed made so far
    mainRan,              \* main() has run its start-up
    lastAuth,             \* response of the latest authorize call of this run
    exc,                  \* exception that ended the latest attempt
    lastFrame,            \* latest frame received on the current connection
    attempts,             \* authorize calls made by the current run
    fails,                \* failed attempts since the last open / run start
    opens,                \* transports opened so far (connection identity)
    startCounter,         \* RECONNECT_ATTEMPTS when the current run started
    restarted,            \* the current run was started by /callback after a stop
    lastCall,             \* latest subscribe_to_symbol call and its outcome
    callTick,             \* flips at every subscribe_to_symbol call
    failedSinceOpen       \* attempts that have failed since a transport last opened

VARIABLES
    tasks,                \* subscribe_to_symbol tasks created on the feed loop, not yet run
    lastAlert,            \* latest handle_scanner_alert call and what became of it
    subscription_queue,   \* main.py:26, queue.Queue() of symbols
    WEBSOCKET_CLIENTS,    \* main.py:29, dashboard connection -> set of symbols
    lastMsg,              \* latest dashboard message handled and its outcome
    msgTick,              \* flips at every dashboard message handled
    bcast,                \* the latest broadcast_message call and its sends
    sendFailed,           \* registered dashboard connections a send to which has failed
    candles,              \* database.py:62-75, rows of the candles table
    sqlite_sequence,      \* largest id the candles table has handed out (AUTOINCREMENT)
    lastSave,             \* arguments of the latest save_candle_data call
    instrument_states,    \* Bar Aggregator: instrument -> its open bar
    completed,            \* bars the Aggregator has emitted, in order
    last_time,            \* instrument -> event time of its latest tick
    ordered,              \* instrument -> its ticks so far came in non-decreasing time
    ingested,             \* ticks handed to the Aggregator so far
    quantity_sum,         \* instrument -> minute -> sum of the quantities of its ticks
    last_price,           \* instrument -> price of its latest tick
    squeeze_history,      \* database.py:50-56, rows of the squeeze_history table by id
    now,                  \* the clock datetime.now() reads
    lastScan,             \* list passed to the latest save_current_squeeze_list_to_db call
    loaded,               \* what the latest load_previous_squeeze_list_from_db call returned
    loadTick,             \* flips at every load_previous_squeeze_list_from_db call
    wss_thread,           \* main.py:25, <<>> for None or <<t>> for the Thread object stored
    threads,              \* feed threads created: thread -> where it is in start_wss_connection
    requests              \* /callback requests being served: request -> where it is in callback

feedVars == <<pc, RECONNECT_ATTEMPTS, WEBSOCKET_CLIENT, ACTIVE_SUBSCRIPTIONS, wss_url,
              transportOpen, sent, processed, mainRan, lastAuth, exc, lastFrame,
              attempts, fails, opens, startCounter, restarted, lastCall, callTick,
              failedSinceOpen>>

alertVars == <<tasks, lastAlert>>

bcastVars == <<bcast, sendFailed>>

dashVars == <<subscription_queue, WEBSOCKET_CLIENTS, lastMsg, msgTick, bcastVars>>

dbVars == <<candles, sqlite_sequence, lastSave>>

aggVars == <<instrument_states, completed, last_time, ordered, ingested, quantity_sum,
            last_price>>

squeezeVars == <<squeeze_history, now, lastScan, loaded, loadTick>>

storeVars == <<dbVars, aggVars, squeezeVars>>

\* everything outside the feed thread's own state and the task list
startVars == <<wss_thread, threads, requests>>

otherVars == <<lastAlert, dashVars, storeVars, startVars>>

vars == <<feedVars, alertVars, dashVars, storeVars, startVars>>

----------------------------------------------------------------------------
(* Bounds and program constants *)

MaxCount == 2

MaxFails == 6

MAX_RECONNECT_ATTEMPTS == 5

Sat(n) == IF n < MaxCount THEN n + 1 ELSE n

SatFails(n) == IF n < MaxFails THEN n + 1 ELSE n

None == "None"
False == "False"
NoConnection == <<>>

----------------------------------------------------------------------------
(* Instrument lookup *)

Symbols == {"RELIANCE", "INFY", "NOSUCH"}

Instruments == [s \in {"RELIANCE", "INFY"} |->
                   IF s = "RELIANCE" THEN "NSE_EQ|INE002A01018" ELSE "NSE_EQ|INE009A01021"]

InstrumentKeys == {Instruments[s] : s \in DOMAIN Instruments}

get_instrument_key_echo(symbol) ==
    IF symbol \in DOMAIN Instruments THEN Instruments[symbol] ELSE symbol

\* instrument_loader.get_instrument_key: the document's instrument_key, or None
get_instrument_key(symbol) ==
    IF symbol \in DOMAIN Instruments THEN Instruments[symbol] ELSE None

----------------------------------------------------------------------------
(* Authorization *)

AuthResponses == {"ok", "no_uri", "http_401", "http_500", "network_error"}

\* get_market_data_feed_authorize_url: the redirect URI, or False
get_market_data_feed_authorize_url(resp) ==
    IF resp = "ok" THEN "wss_uri" ELSE False

----------------------------------------------------------------------------
(* Exception handling of the retry loop *)

ExceptionClasses == {"ApiException", "ConnectionClosed", "ConnectionRefusedError",
                     "InvalidURI", "OSError", "AttributeError", "NameError"}

ExceptClause_noGeneric(e) ==
    CASE e = "ApiException" -> "break"
      [] e \in {"ConnectionClosed", "ConnectionRefusedError"} -> "closed"
      [] OTHER -> "uncaught"

ExceptClause_refusedBreaks(e) ==
    CASE e \in {"ApiException", "ConnectionRefusedError"} -> "break"
      [] e = "ConnectionClosed" -> "closed"
      [] e \in ExceptionClasses -> "generic"
      [] OTHER -> "uncaught"

\* the except clauses of lines 156-162, in order
ExceptClause(e) ==
    CASE e = "ApiException" -> "break"
      [] e \in {"ConnectionClosed", "ConnectionRefusedError"} -> "closed"
      [] e \in ExceptionClasses -> "generic"
      [] OTHER -> "uncaught"

FinallyCounter_noIncrement(n) == n

FinallyCounter_twice(n) == n + 2

\* line 168: RECONNECT_ATTEMPTS += 1
FinallyCounter(n) == n + 1

LoopGuard_offByOne(n) == n <= MAX_RECONNECT_ATTEMPTS

\* line 110: while RECONNECT_ATTEMPTS < MAX_RECONNECT_ATTEMPTS
LoopGuard(n) == n < MAX_RECONNECT_ATTEMPTS

ResetOnOpen_keep(n) == n

\* line 132: RECONNECT_ATTEMPTS = 0
ResetOnOpen(n) == 0

FinallyClient_keep(client) == client

\* line 166: WEBSOCKET_CLIENT = None
FinallyClient(client) == NoConnection

\* except / finally of one attempt that raised e, with the counter at n and f
\* failed attempts counted since the last open
Fail(e, n, f) ==
    /\ WEBSOCKET_CLIENT' = FinallyClient(WEBSOCKET_CLIENT)
    /\ RECONNECT_ATTEMPTS' = FinallyCounter(n)
    /\ transportOpen' = FALSE
    /\ exc' = e
    /\ fails' = SatFails(f)
    /\ failedSinceOpen' = SatFails(failedSinceOpen)
    /\ pc' = CASE ExceptClause(e) = "break" -> "stopped"
               [] ExceptClause(e) = "uncaught" -> "raised"
               [] OTHER -> "sleep"

----------------------------------------------------------------------------
(* Names visible in start_wss_connection *)

ModuleNames == {"asyncio", "json", "ssl", "websockets", "upstox_client", "MessageToDict",
                "os", "http", "urllib", "requests", "ApiException", "websocket",
                "threading", "pb", "process_live_feed", "get_instrument_key",
                "decode_protobuf_message", "ACTIVE_SUBSCRIPTIONS", "WEBSOCKET_CLIENT",
                "RECONNECT_ATTEMPTS", "MAX_RECONNECT_ATTEMPTS", "RECONNECT_DELAY_SECONDS",
                "get_market_data_feed_authorize_url", "start_wss_connection",
                "subscribe_to_symbol", "handle_scanner_alert"}

LocalNames == {"access_token", "configuration", "api_instance", "auth_header", "wss_url",
               "ssl_context", "websocket", "message", "decoded_data", "e"}

NameDefined(name) == name \in LocalNames \cup ModuleNames

----------------------------------------------------------------------------
(* Frames *)

Frames == {"corrupt", "market_info", "live_feed"}

\* decode_protobuf_message: the decoded dict, or None when parsing raises
decode_protobuf_message(buffer) ==
    CASE buffer = "corrupt" -> None
      [] buffer = "market_info" -> "dict_without_feeds"
      [] OTHER -> "dict_with_feeds"

\* line 152: decoded_data and 'feeds' in decoded_data
HasFeeds(decoded_data) == decoded_data # None /\ decoded_data = "dict_with_feeds"

----------------------------------------------------------------------------
(* Control messages *)

\* ACTIVE_SUBSCRIPTIONS is created by set() (line 43) and only .add()ed to
ACTIVE_SUBSCRIPTIONS_type == "set"

\* container.keys(): defined for a dict, AttributeError for a set
keys(type, elems) ==
    IF type = "dict" THEN [raised |-> None, value |-> elems]
    ELSE [raised |-> "AttributeError", value |-> {}]

\* lines 142-146
ResubscribeMessage(conn, instrumentKeys) ==
    [conn |-> conn, guid |-> "resub-guid", method |-> "sub", mode |-> "ltpc",
     instrumentKeys |-> instrumentKeys, frame |-> "text"]

SubscriptionMessage_symbol(conn, symbol, instrument_key) ==
    [conn |-> conn, guid |-> symbol, method |-> "sub", mode |-> "ltpc",
     instrumentKeys |-> {symbol}, frame |-> "binary"]

\* lines 195-204
SubscriptionMessage(conn, symbol, instrument_key) ==
    [conn |-> conn, guid |-> symbol, method |-> "sub", mode |-> "ltpc",
     instrumentKeys |-> {instrument_key}, frame |-> "binary"]

----------------------------------------------------------------------------
Init ==
    /\ pc = "idle"
    /\ RECONNECT_ATTEMPTS = 0
    /\ WEBSOCKET_CLIENT = NoConnection
    /\ ACTIVE_SUBSCRIPTIONS = {}
    /\ wss_url = None
    /\ transportOpen = FALSE
    /\ sent = <<>>
    /\ processed = 0
    /\ mainRan = FALSE
    /\ lastAuth = None
    /\ exc = None
    /\ lastFrame = None
    /\ attempts = 0
    /\ fails = 0
    /\ opens = 0
    /\ startCounter = 0
    /\ restarted = FALSE
    /\ lastCall = [symbol |-> None, outcome |-> None, ret |-> None]
    /\ callTick = FALSE
    /\ failedSinceOpen = 0
    /\ tasks = {}
    /\ lastAlert = [symbol |-> None, outcome |-> None]
    /\ subscription_queue = <<>>
    /\ WEBSOCKET_CLIENTS = [x \in {} |-> {}]
    /\ lastMsg = [message |-> None, outcome |-> None]
    /\ msgTick = FALSE
    /\ bcast = [symbol |-> None, recipients |-> {}, pending |-> {}, delivered |-> {},
                failed |-> {}, state |-> "idle"]
    /\ sendFailed = {}
    /\ candles = {}
    /\ sqlite_sequence = 0
    /\ lastSave = [instrument_key |-> None, timestamp |-> None, candle |-> None]
    /\ instrument_states = [i \in {} |-> None]
    /\ completed = <<>>
    /\ last_time = [i \in InstrumentKeys |-> 0]
    /\ ordered = [i \in InstrumentKeys |-> TRUE]
    /\ ingested = 0
    /\ quantity_sum = [i \in InstrumentKeys |-> [m \in 0..2 |-> 0]]
    /\ last_price = [i \in InstrumentKeys |-> 0]
    /\ squeeze_history = <<>>
    /\ now = 0
    /\ lastScan = <<>>
    /\ loaded = [result |-> <<>>, error |-> FALSE]
    /\ loadTick = FALSE
    /\ wss_thread = <<>>
    /\ threads = <<>>
    /\ requests = [r \in {"r1", "r2"} |-> [at |-> "idle", thread |-> <<>>]]

----------------------------------------------------------------------------
(* Feed thread start-up: main.py *)

Alive == pc \notin {"idle", "stopped", "raised"}

\* start_wss_thread: a new thread runs start_wss_connection from its first line
start_wss_thread(byCallback) ==
    /\ pc' = "loop"
    /\ attempts' = 0
    /\ fails' = 0
    /\ startCounter' = RECONNECT_ATTEMPTS
    /\ restarted' = (byCallback /\ pc = "stopped")
    /\ lastAuth' = None
    /\ exc' = None
    /\ UNCHANGED <<RECONNECT_ATTEMPTS, WEBSOCKET_CLIENT, ACTIVE_SUBSCRIPTIONS, wss_url,
                   transportOpen, sent, processed, lastFrame, opens, lastCall, callTick,
                   failedSinceOpen>>

\* main(): starts the feed thread when UPSTOX_ACCESS_TOKEN is set
main(tokenInEnv) ==
    /\ UNCHANGED <<tasks, otherVars>>
    /\ ~mainRan
    /\ mainRan' = TRUE
    /\ IF tokenInEnv
       THEN start_wss_thread(FALSE)
       ELSE UNCHANGED <<pc, RECONNECT_ATTEMPTS, WEBSOCKET_CLIENT, ACTIVE_SUBSCRIPTIONS,
                        wss_url, transportOpen, sent, processed, lastAuth, exc, lastFrame,
                        attempts, fails, opens, startCounter, restarted, lastCall, callTick,
                        failedSinceOpen>>

\* /callback: starts the feed thread when none is alive and the login succeeded
callback(loginOk) ==
    /\ UNCHANGED <<tasks, otherVars>>
    /\ mainRan
    /\ loginOk
    /\ ~Alive
    /\ start_wss_thread(TRUE)
    /\ UNCHANGED mainRan

----------------------------------------------------------------------------
(* start_wss_connection *)

LoopCheck ==
    /\ UNCHANGED <<tasks, otherVars>>
    /\ pc = "loop"
    /\ IF LoopGuard(RECONNECT_ATTEMPTS)
       THEN pc' = "authorize" /\ exc' = None
       ELSE pc' = "stopped" /\ UNCHANGED exc
    /\ UNCHANGED <<RECONNECT_ATTEMPTS, WEBSOCKET_CLIENT, ACTIVE_SUBSCRIPTIONS, wss_url,
                   transportOpen, sent, processed, mainRan, lastAuth, lastFrame, attempts,
                   fails, opens, startCounter, restarted, lastCall, callTick,
                   failedSinceOpen>>

\* line 117
Authorize(resp) ==
    /\ UNCHANGED <<tasks, otherVars>>
    /\ pc = "authorize"
    /\ wss_url' = get_market_data_feed_authorize_url(resp)
    /\ lastAuth' = resp
    /\ attempts' = Sat(attempts)
    /\ pc' = "connect"
    /\ UNCHANGED <<RECONNECT_ATTEMPTS, WEBSOCKET_CLIENT, ACTIVE_SUBSCRIPTIONS,
                   transportOpen, sent, processed, mainRan, exc, lastFrame, fails, opens,
                   startCounter, restarted, lastCall, callTick,
                   failedSinceOpen>>

\* websockets.connect(wss_url, ...): False is no URI; a URI may open or fail
ConnectOutcomes(url) ==
    IF url = False THEN {"InvalidURI"}
    ELSE {"open", "ConnectionRefusedError", "OSError"}

\* line 130, the handshake
Connect(outcome) ==
    /\ UNCHANGED <<tasks, otherVars>>
    /\ pc = "connect"
    /\ outcome \in ConnectOutcomes(wss_url)
    /\ IF outcome = "open"
       THEN /\ pc' = "connected"
            /\ transportOpen' = TRUE
            /\ opens' = Sat(opens)
            /\ failedSinceOpen' = 0
            /\ UNCHANGED <<RECONNECT_ATTEMPTS, WEBSOCKET_CLIENT, exc, fails>>
       ELSE /\ Fail(outcome, RECONNECT_ATTEMPTS, fails)
            /\ UNCHANGED opens
    /\ UNCHANGED <<ACTIVE_SUBSCRIPTIONS, wss_url, sent, processed, mainRan, lastAuth,
                   lastFrame, attempts, startCounter, restarted, lastCall, callTick>>

\* lines 131-146: the body of the async with, up to the read loop
Established(sendOk) ==
    /\ UNCHANGED <<tasks, otherVars>>
    /\ pc = "connected"
    /\ lastFrame' = None
    /\ IF ACTIVE_SUBSCRIPTIONS = {}
       THEN /\ WEBSOCKET_CLIENT' = <<opens>>
            /\ RECONNECT_ATTEMPTS' = ResetOnOpen(RECONNECT_ATTEMPTS)
            /\ fails' = 0
            /\ pc' = "listening"
            /\ UNCHANGED <<sent, transportOpen, exc, failedSinceOpen>>
       ELSE LET k == keys(ACTIVE_SUBSCRIPTIONS_type, ACTIVE_SUBSCRIPTIONS) IN
            IF k.raised # None
            THEN /\ Fail(k.raised, ResetOnOpen(RECONNECT_ATTEMPTS), 0)
                 /\ UNCHANGED sent
            ELSE /\ sent' = Append(sent, ResubscribeMessage(opens, k.value))
                 /\ IF sendOk /\ transportOpen
                    THEN /\ WEBSOCKET_CLIENT' = <<opens>>
                         /\ RECONNECT_ATTEMPTS' = ResetOnOpen(RECONNECT_ATTEMPTS)
                         /\ fails' = 0
                         /\ pc' = "listening"
                         /\ UNCHANGED <<transportOpen, exc, failedSinceOpen>>
                    ELSE Fail("ConnectionClosed", ResetOnOpen(RECONNECT_ATTEMPTS), 0)
    /\ UNCHANGED <<ACTIVE_SUBSCRIPTIONS, wss_url, processed, mainRan, lastAuth, attempts,
                   opens, startCounter, restarted, lastCall, callTick>>

\* lines 150-154: one frame of the read loop
RecvFrame(message) ==
    /\ UNCHANGED <<tasks, otherVars>>
    /\ pc = "listening"
    /\ transportOpen
    /\ lastFrame' = message
    /\ IF HasFeeds(decode_protobuf_message(message))
       THEN IF NameDefined("broadcast_callback")
            THEN /\ processed' = Sat(processed)
                 /\ UNCHANGED <<pc, RECONNECT_ATTEMPTS, WEBSOCKET_CLIENT, transportOpen,
                                exc, fails, failedSinceOpen>>
            ELSE /\ Fail("NameError", RECONNECT_ATTEMPTS, fails)
                 /\ UNCHANGED processed
       ELSE UNCHANGED <<pc, RECONNECT_ATTEMPTS, WEBSOCKET_CLIENT, transportOpen, exc,
                        fails, processed, failedSinceOpen>>
    /\ UNCHANGED <<ACTIVE_SUBSCRIPTIONS, wss_url, sent, mainRan, lastAuth, attempts, opens,
                   startCounter, restarted, lastCall, callTick>>

\* line 150 on a closed transport: recv raises ConnectionClosed
RecvClosed ==
    /\ UNCHANGED <<tasks, otherVars>>
    /\ pc = "listening"
    /\ ~transportOpen
    /\ Fail("ConnectionClosed", RECONNECT_ATTEMPTS, fails)
    /\ UNCHANGED <<ACTIVE_SUBSCRIPTIONS, wss_url, sent, processed, mainRan, lastAuth,
                   lastFrame, attempts, opens, startCounter, restarted, lastCall, callTick>>

\* the feed server or the network closes the transport
PeerClose ==
    /\ UNCHANGED <<tasks, otherVars>>
    /\ pc \in {"connected", "listening"}
    /\ transportOpen
    /\ transportOpen' = FALSE
    /\ UNCHANGED <<pc, RECONNECT_ATTEMPTS, WEBSOCKET_CLIENT, ACTIVE_SUBSCRIPTIONS, wss_url,
                   sent, processed, mainRan, lastAuth, exc, lastFrame, attempts, fails,
                   opens, startCounter, restarted, lastCall, callTick,
                   failedSinceOpen>>

\* lines 170-171
Sleep ==
    /\ UNCHANGED <<tasks, otherVars>>
    /\ pc = "sleep"
    /\ pc' = "loop"
    /\ UNCHANGED <<RECONNECT_ATTEMPTS, WEBSOCKET_CLIENT, ACTIVE_SUBSCRIPTIONS, wss_url,
                   transportOpen, sent, processed, mainRan, lastAuth, exc, lastFrame,
                   attempts, fails, opens, startCounter, restarted, lastCall, callTick,
                   failedSinceOpen>>

----------------------------------------------------------------------------
(* subscribe_to_symbol *)

AlreadySubscribed_never(instrument_key, subs) == FALSE

\* line 184
AlreadySubscribed(instrument_key, subs) == instrument_key \in subs

\* line 189: not WEBSOCKET_CLIENT or not WEBSOCKET_CLIENT.open
NotConnected(client, open) == client = NoConnection \/ ~open

subscribe_to_symbol(symbol, sendOk) ==
    LET instrument_key == get_instrument_key(symbol) IN
    /\ callTick' = ~callTick
    /\ tasks' = tasks \ {symbol}
    /\ UNCHANGED otherVars
    /\ IF instrument_key = None
       THEN /\ lastCall' = [symbol |-> symbol, outcome |-> "not_found", ret |-> None]
            /\ UNCHANGED <<ACTIVE_SUBSCRIPTIONS, sent>>
       ELSE IF AlreadySubscribed(instrument_key, ACTIVE_SUBSCRIPTIONS)
       THEN /\ lastCall' = [symbol |-> symbol, outcome |-> "already", ret |-> None]
            /\ UNCHANGED <<ACTIVE_SUBSCRIPTIONS, sent>>
       ELSE /\ ACTIVE_SUBSCRIPTIONS' = ACTIVE_SUBSCRIPTIONS \cup {instrument_key}
            /\ IF NotConnected(WEBSOCKET_CLIENT, transportOpen)
               THEN /\ lastCall' = [symbol |-> symbol, outcome |-> "pending", ret |-> None]
                    /\ UNCHANGED sent
               ELSE /\ sent' = Append(sent, SubscriptionMessage(WEBSOCKET_CLIENT[1],
                                                                symbol, instrument_key))
                    /\ lastCall' = [symbol |-> symbol,
                                    outcome |-> IF sendOk THEN "sent" ELSE "send_failed",
                                    ret |-> None]
    /\ UNCHANGED <<pc, RECONNECT_ATTEMPTS, WEBSOCKET_CLIENT, wss_url, transportOpen,
                   processed, mainRan, lastAuth, exc, lastFrame, attempts, fails, opens,
                   startCounter, restarted, failedSinceOpen>>

----------------------------------------------------------------------------
ManagerStep ==
    \/ LoopCheck
    \/ \E resp \in AuthResponses : Authorize(resp)
    \/ \E outcome \in {"open", "ConnectionRefusedError", "OSError", "InvalidURI"} :
          Connect(outcome)
    \/ \E sendOk \in BOOLEAN : Established(sendOk)
    \/ Sleep

Next ==
    \/ \E tokenInEnv \in BOOLEAN : main(tokenInEnv)
    \/ \E loginOk \in BOOLEAN : callback(loginOk)
    \/ LoopCheck
    \/ \E resp \in AuthResponses : Authorize(resp)
    \/ \E outcome \in {"open", "ConnectionRefusedError", "OSError", "InvalidURI"} :
          Connect(outcome)
    \/ \E sendOk \in BOOLEAN : Established(sendOk)
    \/ \E message \in Frames : RecvFrame(message)
    \/ RecvClosed
    \/ PeerClose
    \/ Sleep
    \/ \E symbol \in Symbols, sendOk \in BOOLEAN : subscribe_to_symbol(symbol, sendOk)

Spec == Init /\ [][Next]_vars

\* the feed thread keeps running: the authorize call returns, the handshake ends,
\* the reconnect delay elapses
FairSpec == Spec /\ WF_vars(ManagerStep)

TypeOK ==
    /\ pc \in {"idle", "loop", "authorize", "connect", "connected", "listening", "sleep",
               "stopped", "raised"}
    /\ RECONNECT_ATTEMPTS \in 0..(MAX_RECONNECT_ATTEMPTS + 1)
    /\ WEBSOCKET_CLIENT \in {NoConnection} \cup {<<c>> : c \in 1..MaxCount}
    /\ ACTIVE_SUBSCRIPTIONS \subseteq InstrumentKeys
    /\ wss_url \in {None, False, "wss_uri"}
    /\ transportOpen \in BOOLEAN
    /\ processed \in 0..MaxCount
    /\ attempts \in 0..MaxCount
    /\ opens \in 0..MaxCount
    /\ fails \in 0..MaxFails
    /\ Len(sent) <= MaxCount + Cardinality(InstrumentKeys)

----------------------------------------------------------------------------
(* Claims *)

InAttempt(p) == p \in {"connect", "connected", "listening"}

LastSent(log) == log[Len(log)]

\* C1: starting with the retry counter at 0, exactly MAX_RECONNECT_ATTEMPTS
\* consecutive failed attempts (no transport opened in between) end the retry
\* loop: the manager never stops with fewer, never authorizes or connects again
\* after the last of them, and then reaches STOPPED.
C1_ReconnectBound ==
    /\ [](startCounter = 0 =>
            /\ fails <= MAX_RECONNECT_ATTEMPTS
            /\ (fails = MAX_RECONNECT_ATTEMPTS => pc \in {"sleep", "loop", "stopped"})
            /\ (pc = "stopped" => fails = MAX_RECONNECT_ATTEMPTS))
    /\ []((startCounter = 0 /\ fails = MAX_RECONNECT_ATTEMPTS) => <>(pc = "stopped"))

C1_Witness ==
    /\ pc = "stopped"
    /\ startCounter = 0
    /\ fails = MAX_RECONNECT_ATTEMPTS
    /\ opens = 0
    /\ exc = "InvalidURI"

\* C2: when the transport has opened and the registry is non-empty, the step that
\* follows sends exactly one resubscribe-all message listing the registry and
\* enters the read loop.
C2_ResubscribeReplay ==
    [][(pc = "connected" /\ transportOpen /\ ACTIVE_SUBSCRIPTIONS # {} /\ pc' # pc) =>
          /\ pc' = "listening"
          /\ Len(sent') = Len(sent) + 1
          /\ LastSent(sent').guid = "resub-guid"
          /\ LastSent(sent').instrumentKeys = ACTIVE_SUBSCRIPTIONS]_vars

\* C3 (as stated): if every session ends in an error, before or after the
\* transport opened, a started manager eventually reaches STOPPED.
C3_BoundedRetries ==
    ([]<>(pc # "listening")) => [](pc # "idle" => <>(pc = "stopped"))

\* C3 (amended): if every session ends and from some point on no attempt opens
\* the transport, a started manager eventually reaches STOPPED.
C3_BoundedRetriesBeforeOpen ==
    (([]<>(pc # "listening")) /\ <>[](pc # "connected"))
        => [](pc # "idle" => <>(pc = "stopped"))

C3_Witness ==
    /\ pc = "stopped"
    /\ opens >= 1
    /\ fails = MAX_RECONNECT_ATTEMPTS
    /\ exc \in {"InvalidURI", "ConnectionRefusedError", "OSError"}

\* C4: a valid frame with feeds received right after a corrupted frame on the
\* same connection is handed to the tick processor; the connection stays open
\* and the retry counter is unchanged.
C4_DecodeErrorIsolated ==
    [][(pc = "listening" /\ lastFrame = "corrupt" /\ lastFrame' = "live_feed") =>
          /\ processed' = processed + 1
          /\ pc' = "listening"
          /\ WEBSOCKET_CLIENT' = WEBSOCKET_CLIENT
          /\ transportOpen'
          /\ RECONNECT_ATTEMPTS' = RECONNECT_ATTEMPTS]_vars

\* C5: start_wss_connection never ends by raising, and every step that ends a
\* connection attempt is an exception that is counted once and leads to the
\* reconnect delay or to STOPPED.
C5_NoFailureEscapes ==
    [][/\ pc' # "raised"
       /\ (InAttempt(pc) /\ ~InAttempt(pc')) =>
             /\ pc' \in {"sleep", "stopped"}
             /\ exc' \in ExceptionClasses
             /\ RECONNECT_ATTEMPTS' =
                   (IF pc = "connected" THEN 0 ELSE RECONNECT_ATTEMPTS) + 1]_vars

C5_Witness ==
    /\ pc = "sleep"
    /\ exc = "NameError"
    /\ lastFrame = "live_feed"

\* C6: once the authorize endpoint has rejected the credential, the manager
\* stops: it does not count a retry, wait, or authorize again.
C6_InvalidCredentialStops ==
    lastAuth = "http_401" => pc \in {"connect", "stopped"}

\* C7: a failed authorization call does not raise; the attempt it belongs to
\* ends without opening the transport, with the retry counter incremented by
\* exactly one, and the task goes on to the reconnect delay.
C7_FailedAuthorizationCounted ==
    [][/\ (pc = "authorize" /\ pc' # pc /\ lastAuth' # "ok") =>
             (pc' = "connect" /\ RECONNECT_ATTEMPTS' = RECONNECT_ATTEMPTS)
       /\ (pc = "connect" /\ pc' # pc /\ lastAuth # "ok") =>
             /\ pc' = "sleep"
             /\ RECONNECT_ATTEMPTS' = RECONNECT_ATTEMPTS + 1
             /\ opens' = opens
             /\ ~transportOpen'
             /\ WEBSOCKET_CLIENT' = NoConnection]_vars

C7_Witness ==
    /\ pc = "sleep"
    /\ lastAuth \in {"no_uri", "http_401", "http_500", "network_error"}
    /\ exc = "InvalidURI"
    /\ RECONNECT_ATTEMPTS = 1

\* C8: a feed thread started by /callback after the manager stopped has made at
\* least one authorization call by the time it stops.
C8_ExternalReconnectAttempts ==
    (restarted /\ pc = "stopped") => attempts >= 1

C11_PendingReplayedOnOpen ==
    [][/\ LET k == get_instrument_key(lastCall'.symbol) IN
          (callTick' # callTick /\ k # None /\ k \notin ACTIVE_SUBSCRIPTIONS
           /\ NotConnected(WEBSOCKET_CLIENT, transportOpen)) =>
             /\ ACTIVE_SUBSCRIPTIONS' = ACTIVE_SUBSCRIPTIONS \cup {k}
             /\ sent' = sent
       /\ (pc = "connected" /\ transportOpen /\ pc' # pc) =>
             \A k \in ACTIVE_SUBSCRIPTIONS :
                \E i \in (Len(sent) + 1)..Len(sent') :
                   /\ sent'[i].guid = "resub-guid"
                   /\ k \in sent'[i].instrumentKeys]_vars

----------------------------------------------------------------------------
(* Dashboard server: main.py websocket_handler and the subscription queue *)

MaxQueued == 2

\* main.py:26: queue.Queue() takes maxsize = 0, "the queue size is infinite"
subscription_queue_maxsize == 0

Clients == {"ws1", "ws2"}

\* what json.loads makes of a dashboard message: not JSON, or an object with its
\* 'action' and 'symbol' entries (None when absent)
ClientMessages ==
    {[json |-> TRUE, action |-> "subscribe", symbol |-> s] : s \in Symbols \cup {None}}
      \cup {[json |-> TRUE, action |-> "unsubscribe", symbol |-> "INFY"],
            [json |-> FALSE, action |-> None, symbol |-> None]}

\* today's candles on file for the instrument, and how the send of them ends
Histories == {"empty", "sent", "ConnectionClosed"}

QueueFull_capacityOne(q) == Len(q) >= 1

\* Queue.put blocks while maxsize > 0 and qsize() >= maxsize
QueueFull(q) == subscription_queue_maxsize > 0 /\ Len(q) >= subscription_queue_maxsize

Deregister_keep(clients, c) == clients

\* lines 98-101, finally: del WEBSOCKET_CLIENTS[websocket]
Deregister(clients, c) == [x \in (DOMAIN clients) \ {c} |-> clients[x]]

\* line 66: WEBSOCKET_CLIENTS[websocket] = set()
Register(clients, c) ==
    [x \in (DOMAIN clients) \cup {c} |-> IF x = c THEN {} ELSE clients[x]]

AddSymbol_everyClient(clients, c, symbol) ==
    [x \in DOMAIN clients |-> clients[x] \cup {symbol}]

\* line 77: WEBSOCKET_CLIENTS[websocket].add(symbol)
AddSymbol(clients, c, symbol) ==
    [x \in DOMAIN clients |-> IF x = c THEN clients[x] \cup {symbol} ELSE clients[x]]

\* a dashboard client connects: lines 62-66
Accept(c) ==
    /\ c \notin DOMAIN WEBSOCKET_CLIENTS
    /\ WEBSOCKET_CLIENTS' = Register(WEBSOCKET_CLIENTS, c)
    /\ sendFailed' = sendFailed \ {c}
    /\ UNCHANGED <<feedVars, startVars, alertVars, storeVars, subscription_queue, lastMsg, msgTick, bcast>>

\* one iteration of "async for message in websocket": lines 68-94, with the
\* except/finally of lines 96-101 when the iteration raises
ClientMessage(c, m, history) ==
    /\ c \in DOMAIN WEBSOCKET_CLIENTS
    /\ (m.action = "subscribe" /\ m.symbol # None) => Len(subscription_queue) < MaxQueued
    /\ msgTick' = ~msgTick
    /\ IF ~m.json
       THEN \* json.loads raises JSONDecodeError: not caught, finally runs
            /\ WEBSOCKET_CLIENTS' = Deregister(WEBSOCKET_CLIENTS, c)
            /\ lastMsg' = [message |-> m, outcome |-> "JSONDecodeError"]
            /\ UNCHANGED subscription_queue
       ELSE IF m.action = "subscribe" /\ m.symbol # None
       THEN IF QueueFull(subscription_queue)
            THEN \* put() blocks the handler after line 77
                 /\ WEBSOCKET_CLIENTS' = AddSymbol(WEBSOCKET_CLIENTS, c, m.symbol)
                 /\ lastMsg' = [message |-> m, outcome |-> "put_blocked"]
                 /\ UNCHANGED subscription_queue
            ELSE /\ subscription_queue' = Append(subscription_queue, m.symbol)
                 /\ IF get_instrument_key(m.symbol) = None
                    THEN /\ WEBSOCKET_CLIENTS' = AddSymbol(WEBSOCKET_CLIENTS, c, m.symbol)
                         /\ lastMsg' = [message |-> m,
                                        outcome |-> "no_instrument"]
                    ELSE IF history = "ConnectionClosed"
                    THEN /\ WEBSOCKET_CLIENTS' = Deregister(WEBSOCKET_CLIENTS, c)
                         /\ lastMsg' = [message |-> m,
                                        outcome |-> "ConnectionClosed"]
                    ELSE /\ WEBSOCKET_CLIENTS' = AddSymbol(WEBSOCKET_CLIENTS, c, m.symbol)
                         /\ lastMsg' = [message |-> m,
                                        outcome |-> IF history = "sent"
                                                    THEN "historical_data"
                                                    ELSE "no_history"]
       ELSE /\ lastMsg' = [message |-> m, outcome |-> "ignored"]
            /\ UNCHANGED <<WEBSOCKET_CLIENTS, subscription_queue>>
    /\ sendFailed' = sendFailed \cap DOMAIN WEBSOCKET_CLIENTS'
    /\ UNCHANGED <<feedVars, startVars, alertVars, storeVars, bcast>>

\* the dashboard connection closes: the iteration ends, lines 96-101
ClientClose(c) ==
    /\ c \in DOMAIN WEBSOCKET_CLIENTS
    /\ WEBSOCKET_CLIENTS' = Deregister(WEBSOCKET_CLIENTS, c)
    /\ sendFailed' = sendFailed \ {c}
    /\ UNCHANGED <<feedVars, startVars, alertVars, storeVars, subscription_queue, lastMsg, msgTick, bcast>>

\* one dashboard connection is enough to fill the queue
QueueClients == {"ws1"}

\* the program as main.py wires it: the feed thread and the dashboard server;
\* nothing in it calls subscribe_to_symbol
QueueNext ==
    \/ \E tokenInEnv \in BOOLEAN : main(tokenInEnv)
    \/ \E loginOk \in BOOLEAN : callback(loginOk)
    \/ ManagerStep
    \/ \E message \in Frames : RecvFrame(message)
    \/ RecvClosed
    \/ PeerClose
    \/ \E c \in QueueClients : Accept(c)
    \/ \E c \in QueueClients, m \in ClientMessages, history \in Histories :
          ClientMessage(c, m, history)
    \/ \E c \in QueueClients : ClientClose(c)

QueueSpec == Init /\ [][QueueNext]_vars

FairQueueSpec == QueueSpec /\ WF_vars(ManagerStep)

Queued(s) == \E i \in 1..Len(subscription_queue) : subscription_queue[i] = s

\* C12: while the Connection Manager runs, every symbol waiting in the
\* pending-subscription queue is eventually taken out of it and, if it resolves
\* to an instrument, that instrument is then in the subscription registry.
C12_QueueDrained ==
    \A s \in Symbols :
       (Queued(s) /\ Alive) ~>
          (\/ ~Alive
           \/ /\ ~Queued(s)
              /\ get_instrument_key(s) # None =>
                    get_instrument_key(s) \in ACTIVE_SUBSCRIPTIONS)

----------------------------------------------------------------------------
(* handle_scanner_alert: wss_handler.py lines 209-220 *)

\* where the caller runs: in a coroutine of a running event loop, or in a plain
\* thread (scanner, HTTP handler) where asyncio.get_running_loop() raises
CallerContexts == {"running_loop", "no_running_loop"}

\* lines 213-220; a second task for a symbol whose task is still waiting is not
\* told apart from the first (it would find the instrument already subscribed)
handle_scanner_alert(symbol, context) ==
    /\ IF context = "running_loop"
       THEN /\ tasks' = tasks \cup {symbol}
            /\ lastAlert' = [symbol |-> symbol, outcome |-> "task_created"]
       ELSE \* RuntimeError, caught on line 219: a message is printed
            /\ lastAlert' = [symbol |-> symbol, outcome |-> "RuntimeError"]
            /\ UNCHANGED tasks
    /\ UNCHANGED <<feedVars, startVars, dashVars, storeVars>>

\* the scanner's alerts: a listed symbol and an unknown one
AlertSymbols == {"RELIANCE", "NOSUCH"}

AlertNext ==
    \/ \E tokenInEnv \in BOOLEAN : main(tokenInEnv)
    \/ \E loginOk \in BOOLEAN : callback(loginOk)
    \/ ManagerStep
    \/ \E message \in Frames : RecvFrame(message)
    \/ RecvClosed
    \/ PeerClose
    \/ \E symbol \in AlertSymbols, context \in CallerContexts :
          handle_scanner_alert(symbol, context)
    \/ \E symbol \in tasks, sendOk \in BOOLEAN : subscribe_to_symbol(symbol, sendOk)

AlertSpec == Init /\ [][AlertNext]_vars

\* C13: the latest scanner alert for a resolvable symbol is not lost: its
\* subscription is waiting to run or its instrument is in the registry.
C13_AlertNotLost ==
    (lastAlert.symbol # None /\ get_instrument_key(lastAlert.symbol) # None) =>
       \/ lastAlert.symbol \in tasks
       \/ get_instrument_key(lastAlert.symbol) \in ACTIVE_SUBSCRIPTIONS

----------------------------------------------------------------------------
(* broadcast_message: main.py lines 32-56 *)

\* the event's 'symbol' entry: message.get("symbol") is None when it has none
EventSymbols == Symbols \cup {None}

Recipients_all(clients, symbol) == DOMAIN clients

\* lines 44-53: the sends collected under clients_lock
Recipients(clients, symbol) ==
    IF symbol # None
    THEN {c \in DOMAIN clients : symbol \in clients[c]}
    ELSE DOMAIN clients

GatherOutcome_returnExceptions(state, ok, pending) ==
    IF state = "gathering" /\ pending = {} THEN "returned" ELSE state

\* line 56: await asyncio.gather(*tasks) returns when every send has completed
\* and raises the first exception of a send as soon as it occurs
GatherOutcome(state, ok, pending) ==
    IF state # "gathering" THEN state
    ELSE IF ~ok THEN "raised"
    ELSE IF pending = {} THEN "returned"
    ELSE state

\* lines 37-56 up to the await; a call starts when the sends of the one before
\* have ended
broadcast_message(symbol) ==
    /\ bcast.pending = {}
    /\ LET tasks_ == IF DOMAIN WEBSOCKET_CLIENTS = {}
                     THEN {}
                     ELSE Recipients(WEBSOCKET_CLIENTS, symbol) IN
       bcast' = [symbol |-> symbol, recipients |-> tasks_, pending |-> tasks_,
                 delivered |-> {}, failed |-> {},
                 state |-> IF tasks_ = {} THEN "returned" ELSE "gathering"]
    /\ UNCHANGED <<feedVars, startVars, alertVars, storeVars, subscription_queue, WEBSOCKET_CLIENTS, lastMsg,
                   msgTick, sendFailed>>

\* one client.send(json_message) of the gather ends; it cannot succeed on a
\* connection that has closed
Send(c, ok) ==
    /\ c \in bcast.pending
    /\ ok => c \in DOMAIN WEBSOCKET_CLIENTS
    /\ bcast' = [bcast EXCEPT
                   !.pending = @ \ {c},
                   !.delivered = IF ok THEN @ \cup {c} ELSE @,
                   !.failed = IF ok THEN @ ELSE @ \cup {c},
                   !.state = GatherOutcome(@, ok, bcast.pending \ {c})]
    /\ sendFailed' = IF ~ok /\ c \in DOMAIN WEBSOCKET_CLIENTS
                     THEN sendFailed \cup {c}
                     ELSE sendFailed
    /\ UNCHANGED <<feedVars, startVars, alertVars, storeVars, subscription_queue, WEBSOCKET_CLIENTS, lastMsg,
                   msgTick>>

\* the dashboard server and the broadcasts made to it
DashNext ==
    \/ \E c \in Clients : Accept(c)
    \/ \E c \in Clients, m \in ClientMessages, history \in Histories :
          ClientMessage(c, m, history)
    \/ \E c \in Clients : ClientClose(c)
    \/ \E symbol \in EventSymbols : broadcast_message(symbol)
    \/ \E c \in Clients, ok \in BOOLEAN : Send(c, ok)

DashSpec == Init /\ [][DashNext]_vars

DashTypeOK ==
    /\ DOMAIN WEBSOCKET_CLIENTS \subseteq Clients
    /\ \A c \in DOMAIN WEBSOCKET_CLIENTS : WEBSOCKET_CLIENTS[c] \subseteq Symbols
    /\ Len(subscription_queue) <= MaxQueued
    /\ bcast.state \in {"idle", "gathering", "returned", "raised"}
    /\ bcast.pending \cup bcast.delivered \cup bcast.failed = bcast.recipients
    /\ sendFailed \subseteq DOMAIN WEBSOCKET_CLIENTS

IsSubscribe(m) == m.json /\ m.action = "subscribe" /\ m.symbol # None

BroadcastStarts == bcast' # bcast /\ bcast'.delivered = {} /\ bcast'.failed = {}

C16_FailureIsolated ==
    bcast.failed # {} =>
       /\ bcast.state # "raised"
       /\ bcast.pending = {} => bcast.delivered = bcast.recipients \ bcast.failed

\* C17: the step in which a send of a broadcast fails removes that client from
\* the registry, and a broadcast never selects a registered client a send to
\* which has failed.
C17_FailedClientDeregistered ==
    [][/\ \A c \in bcast'.failed \ bcast.failed : c \notin DOMAIN WEBSOCKET_CLIENTS'
       /\ BroadcastStarts => bcast'.recipients \cap sendFailed = {}]_vars

\* C18: when the read loop, on an open connection, receives a frame that carries
\* feeds (an event to store or broadcast), it is back at the receive of the next
\* frame on the same connection after that step, whatever the dashboard sends
\* still pending.
C18_ReadLoopNotBlocked ==
    [][(pc = "listening" /\ transportOpen /\ lastFrame # "live_feed"
        /\ lastFrame' = "live_feed") =>
          /\ pc' = "listening"
          /\ WEBSOCKET_CLIENT' = WEBSOCKET_CLIENT
          /\ exc' = exc]_vars

----------------------------------------------------------------------------
(* core/database.py: the candles table and save_candle_data *)

MaxRowId == 4

Timestamps == {"2024-01-01T09:15:00", "2024-01-01T09:16:00"}

\* the OHLCV values of a candle_data argument
Candles ==
    {[open |-> 100, high |-> 102, low |-> 99, close |-> 101, volume |-> 5000],
     [open |-> 100, high |-> 103, low |-> 99, close |-> 103, volume |-> 7500]}

Conflicts_keyOnly(r, instrument_key, timestamp) == r.instrument_key = instrument_key

\* line 73: UNIQUE(instrument_key, timestamp)
Conflicts(r, instrument_key, timestamp) ==
    r.instrument_key = instrument_key /\ r.timestamp = timestamp

\* INSERT OR REPLACE (line 177): the rows that conflict with the new one are
\* deleted, then the new row is inserted; its id (line 64, INTEGER PRIMARY KEY
\* AUTOINCREMENT) is one more than the largest id ever used
InsertOrReplace(table, seq, instrument_key, timestamp, candle) ==
    {r \in table : ~Conflicts(r, instrument_key, timestamp)}
      \cup {[id |-> seq + 1, instrument_key |-> instrument_key, timestamp |-> timestamp,
             open |-> candle.open, high |-> candle.high, low |-> candle.low,
             close |-> candle.close, volume |-> candle.volume]}

\* lines 168-189; a sqlite3.Error (database locked, disk I/O) is printed and
\* nothing is committed
save_candle_data(instrument_key, timestamp, candle, dbOk) ==
    /\ sqlite_sequence < MaxRowId
    /\ lastSave' = [instrument_key |-> instrument_key, timestamp |-> timestamp,
                    candle |-> candle]
    /\ IF dbOk
       THEN /\ candles' = InsertOrReplace(candles, sqlite_sequence, instrument_key,
                                          timestamp, candle)
            /\ sqlite_sequence' = sqlite_sequence + 1
       ELSE UNCHANGED <<candles, sqlite_sequence>>
    /\ UNCHANGED <<feedVars, startVars, alertVars, dashVars, aggVars, squeezeVars>>

DbNext ==
    \E instrument_key \in InstrumentKeys, timestamp \in Timestamps, candle \in Candles,
       dbOk \in BOOLEAN :
          save_candle_data(instrument_key, timestamp, candle, dbOk)

DbSpec == Init /\ [][DbNext]_vars

\* the key and value columns of the table, without the id column
Data(table) ==
    {[instrument_key |-> r.instrument_key, timestamp |-> r.timestamp,
      open |-> r.open, high |-> r.high, low |-> r.low, close |-> r.close,
      volume |-> r.volume] : r \in table}

\* the row saved by the latest call, without its id
SavedData ==
    [instrument_key |-> lastSave.instrument_key, timestamp |-> lastSave.timestamp,
     open |-> lastSave.candle.open, high |-> lastSave.candle.high,
     low |-> lastSave.candle.low, close |-> lastSave.candle.close,
     volume |-> lastSave.candle.volume]

\* C19 (as stated): the table holds at most one row per (instrument_key,
\* timestamp), and a save that commits a bar equal to the row on file for its
\* key leaves the table unchanged.
C19_UpsertLeavesTableUnchanged ==
    /\ [](\A r1, r2 \in candles :
             (r1.instrument_key = r2.instrument_key /\ r1.timestamp = r2.timestamp)
                => r1 = r2)
    /\ [][(sqlite_sequence' # sqlite_sequence /\ SavedData' \in Data(candles)) =>
             candles' = candles]_vars

\* C19 (amended): the table holds at most one row per (instrument_key,
\* timestamp); a committed save leaves the rows of other keys as they were and
\* makes the row of its key hold the saved values, so that a repeated delivery
\* leaves every key and value column unchanged; the saved row is a new row
\* whose id is larger than every id used before.
C19_Upsert ==
    /\ [](\A r1, r2 \in candles :
             (r1.instrument_key = r2.instrument_key /\ r1.timestamp = r2.timestamp)
                => r1 = r2)
    /\ [][sqlite_sequence' # sqlite_sequence =>
            /\ {r \in candles' : ~(r.instrument_key = lastSave'.instrument_key
                                    /\ r.timestamp = lastSave'.timestamp)}
                 = {r \in candles : ~(r.instrument_key = lastSave'.instrument_key
                                       /\ r.timestamp = lastSave'.timestamp)}
            /\ SavedData' \in Data(candles')
            /\ SavedData' \in Data(candles) => Data(candles') = Data(candles)
            /\ \A r \in candles' \ candles :
                  \A old \in candles : r.id > old.id]_vars

C19_Witness ==
    /\ Cardinality(candles) = 2
    /\ sqlite_sequence = 4
    /\ \E r \in candles : r.id = 4 /\ r.volume = 7500 /\ r.instrument_key = "NSE_EQ|INE002A01018"
    /\ \E r \in candles : r.id = 3 /\ r.instrument_key = "NSE_EQ|INE009A01021"

----------------------------------------------------------------------------
(* Bar Aggregator (process_live_feed): ingest(tick), one open bar per instrument *)

MaxTicks == 3

Prices == {99, 100, 101}

Quantities == {5, 10}

\* event times in seconds: two in the first minute, one in each of the next two
EventTimes == {5, 40, 65, 125}

\* the ticks of the Wire Decoder, and one that lacks a required field
Ticks ==
    [instrument_id : InstrumentKeys, last_price : Prices, last_quantity : Quantities,
     event_time : EventTimes]
      \cup {[instrument_id |-> "NSE_EQ|INE002A01018", last_quantity |-> 5,
             event_time |-> 65]}

RequiredFields == {"last_price", "last_quantity", "event_time"}

Bucket_second(event_time) == event_time

\* step 1: the event time truncated to the start of its minute
Bucket(event_time) == (event_time \div 60) * 60

Max_first(a, b) == a

Max(a, b) == IF a >= b THEN a ELSE b

Min_first(a, b) == a

Min(a, b) == IF a <= b THEN a ELSE b

\* step 2: a new bar seeded from one tick
NewBar(tick) ==
    [instrument_id |-> tick.instrument_id, bucket_start |-> Bucket(tick.event_time),
     open |-> tick.last_price, high |-> tick.last_price, low |-> tick.last_price,
     close |-> tick.last_price, volume |-> tick.last_quantity]

UpdateBar_lastQuantity(bar, tick) ==
    [bar EXCEPT !.high = Max(@, tick.last_price),
                !.low = Min(@, tick.last_price),
                !.close = tick.last_price,
                !.volume = tick.last_quantity]

\* step 4: update in place
UpdateBar(bar, tick) ==
    [bar EXCEPT !.high = Max(@, tick.last_price),
                !.low = Min(@, tick.last_price),
                !.close = tick.last_price,
                !.volume = @ + tick.last_quantity]

Rollover_never(bar, tick) == FALSE

\* step 3: the tick's bucket is later than the open bar's
Rollover(bar, tick) == Bucket(tick.event_time) > bar.bucket_start

SetState(states, i, bar) ==
    [x \in (DOMAIN states) \cup {i} |-> IF x = i THEN bar ELSE states[x]]

\* ingest(tick): steps 1-5 and the failure semantics of the contract
ingest(tick) ==
    /\ ingested < MaxTicks
    /\ ingested' = ingested + 1
    /\ IF ~(RequiredFields \subseteq DOMAIN tick)
       THEN \* dropped with a logged warning
            UNCHANGED <<instrument_states, completed, last_time, ordered, quantity_sum,
                        last_price>>
       ELSE LET i == tick.instrument_id IN
            /\ last_time' = [last_time EXCEPT ![i] = tick.event_time]
            /\ last_price' = [last_price EXCEPT ![i] = tick.last_price]
            /\ quantity_sum' = [quantity_sum EXCEPT ![i][tick.event_time \div 60] =
                                                       @ + tick.last_quantity]
            /\ ordered' = [ordered EXCEPT ![i] = @ /\ tick.event_time >= last_time[i]]
            /\ IF i \notin DOMAIN instrument_states
               THEN /\ instrument_states' = SetState(instrument_states, i, NewBar(tick))
                    /\ UNCHANGED completed
               ELSE IF Rollover(instrument_states[i], tick)
               THEN /\ completed' = Append(completed, instrument_states[i])
                    /\ instrument_states' = SetState(instrument_states, i, NewBar(tick))
               ELSE /\ instrument_states' =
                          SetState(instrument_states, i,
                                   UpdateBar(instrument_states[i], tick))
                    /\ UNCHANGED completed
    /\ UNCHANGED <<feedVars, startVars, alertVars, dashVars, dbVars, squeezeVars>>

AggNext == \E tick \in Ticks : ingest(tick)

AggSpec == Init /\ [][AggNext]_vars

\* the minute an instant lies in
MinuteOf(t) == t \div 60

\* C20: for an instrument whose ticks came in non-decreasing event-time order,
\* the completed bars are emitted in strictly increasing order of their minute,
\* so that no minute has two of them.
C20_OneBarPerBucket ==
    \A i \in InstrumentKeys :
       ordered[i] =>
          \A m, n \in 1..Len(completed) :
             (m < n /\ completed[m].instrument_id = i /\ completed[n].instrument_id = i)
                => MinuteOf(completed[m].bucket_start) < MinuteOf(completed[n].bucket_start)

C20_Witness ==
    /\ Len(completed) = 2
    /\ completed[1].instrument_id = completed[2].instrument_id
    /\ ordered[completed[1].instrument_id]
    /\ completed[1].bucket_start = 0
    /\ completed[2].bucket_start = 60
    /\ completed[1].close = 101
    /\ completed[2].low = 99

WellFormed(bar) ==
    /\ bar.low <= bar.open /\ bar.open <= bar.high
    /\ bar.low <= bar.close /\ bar.close <= bar.high

\* C21: every instrument's open bar and every emitted bar has
\* low <= open <= high and low <= close <= high, whatever the order of the ticks.
C21_BarInvariant ==
    /\ \A i \in DOMAIN instrument_states : WellFormed(instrument_states[i])
    /\ \A n \in 1..Len(completed) : WellFormed(completed[n])

C21_Witness ==
    /\ Len(completed) = 1
    /\ ~ordered[completed[1].instrument_id]
    /\ completed[1].open = 100
    /\ completed[1].high = 101
    /\ completed[1].close = 101
    /\ instrument_states[completed[1].instrument_id].low = 99

\* C22: for an instrument whose ticks came in non-decreasing event-time order,
\* the volume of every emitted bar is the sum of the quantities of the ticks of
\* that instrument whose event time lies in the bar's minute.
C22_VolumeIsBucketSum ==
    \A n \in 1..Len(completed) :
       ordered[completed[n].instrument_id] =>
          completed[n].volume =
             quantity_sum[completed[n].instrument_id][MinuteOf(completed[n].bucket_start)]

C22_Witness ==
    /\ Len(completed) = 1
    /\ ordered[completed[1].instrument_id]
    /\ completed[1].volume = 15
    /\ completed[1].bucket_start = 0
    /\ instrument_states[completed[1].instrument_id].bucket_start = 120

\* instrument i is the one whose tick this step ingests (quantities are positive)
Ingested(i) == quantity_sum'[i] # quantity_sum[i]

\* after the step, i's open bar holds the step's tick and nothing else
Seeded(i) ==
    LET bar == instrument_states'[i]
        minute == last_time'[i] \div 60 IN
    /\ bar.instrument_id = i
    /\ bar.bucket_start = minute * 60
    /\ bar.open = last_price'[i] /\ bar.high = last_price'[i]
    /\ bar.low = last_price'[i] /\ bar.close = last_price'[i]
    /\ bar.volume = quantity_sum'[i][minute] - quantity_sum[i][minute]

\* C23: the first tick of an instrument creates its open bar with
\* open = high = low = close = price and volume = quantity and emits nothing; a
\* tick whose minute is later than the open bar's emits the open bar as it
\* stood and replaces it, in the same step, with a bar seeded from that tick only.
C23_BucketRollover ==
    [][\A i \in InstrumentKeys :
          Ingested(i) =>
             /\ i \notin DOMAIN instrument_states =>
                   Seeded(i) /\ completed' = completed
             /\ (i \in DOMAIN instrument_states
                 /\ (last_time'[i] \div 60) * 60 > instrument_states[i].bucket_start) =>
                   /\ completed' = Append(completed, instrument_states[i])
                   /\ Seeded(i)]_vars

C23_Witness ==
    /\ Len(completed) = 1
    /\ completed[1] = [instrument_id |-> "NSE_EQ|INE009A01021", bucket_start |-> 0,
                       open |-> 100, high |-> 101, low |-> 100, close |-> 101,
                       volume |-> 15]
    /\ instrument_states["NSE_EQ|INE009A01021"] =
          [instrument_id |-> "NSE_EQ|INE009A01021", bucket_start |-> 60,
           open |-> 99, high |-> 99, low |-> 99, close |-> 99, volume |-> 10]

\* C24: a tick whose minute is earlier than the open bar's is folded into the
\* open bar: high, low, close and volume take the tick in, bucket_start and open
\* stay, nothing is emitted; and no step removes, repeats or changes a bar
\* already emitted.
C24_LateTickFolded ==
    [][/\ \A i \in InstrumentKeys :
            (Ingested(i) /\ i \in DOMAIN instrument_states
             /\ (last_time'[i] \div 60) * 60 < instrument_states[i].bucket_start) =>
               LET bar == instrument_states[i]
                   price == last_price'[i]
                   minute == last_time'[i] \div 60 IN
               /\ completed' = completed
               /\ instrument_states'[i] =
                     [instrument_id |-> i, bucket_start |-> bar.bucket_start,
                      open |-> bar.open,
                      high |-> IF price > bar.high THEN price ELSE bar.high,
                      low |-> IF price < bar.low THEN price ELSE bar.low,
                      close |-> price,
                      volume |-> bar.volume + quantity_sum'[i][minute]
                                    - quantity_sum[i][minute]]
       /\ Len(completed') >= Len(completed)
       /\ SubSeq(completed', 1, Len(completed)) = completed
       /\ \A n \in (Len(completed) + 1)..Len(completed') :
             \A m \in 1..Len(completed) : completed'[n] # completed[m]]_vars

C24_Witness ==
    /\ Len(completed) = 1
    /\ completed[1].bucket_start = 0
    /\ last_time[completed[1].instrument_id] = 5
    /\ instrument_states[completed[1].instrument_id].bucket_start = 60
    /\ instrument_states[completed[1].instrument_id].low = 99
    /\ instrument_states[completed[1].instrument_id].open = 101
    /\ instrument_states[completed[1].instrument_id].volume = 15

\* C25: in the read loop the retry counter is 0; the step that follows the
\* opening of the transport leaves the counter at 0 when it enters the read loop
\* and at 1 when the session fails in it, whatever the counter was before; and
\* between attempts the counter is the number of attempts that have failed since
\* a transport last opened.
C25_CounterResetOnOpen ==
    /\ [](pc = "listening" => RECONNECT_ATTEMPTS = 0)
    /\ [][(pc = "connected" /\ pc' # pc) =>
             RECONNECT_ATTEMPTS' = (IF pc' = "listening" THEN 0 ELSE 1)]_vars
    /\ [](pc \in {"sleep", "loop", "stopped"} => RECONNECT_ATTEMPTS = failedSinceOpen)

C25_Witness ==
    /\ pc = "listening"
    /\ opens = 1
    /\ attempts = 2
    /\ startCounter = 0
    /\ RECONNECT_ATTEMPTS = 0
    /\ failedSinceOpen = 0

\* C26: a step that ends a connection attempt leaves the manager disconnected
\* and waiting, with the counter one more than it was (one more than 0 when the
\* transport had opened); after the wait the manager authorizes again exactly
\* when the counter is below the maximum, and stops otherwise; a connect is
\* entered only from an authorization call of the same attempt, with the URI
\* that call returned; and the wait and the decision after it do come.
C26_RetryAfterFailure ==
    /\ [][/\ (InAttempt(pc) /\ ~InAttempt(pc')) =>
               /\ pc' = "sleep"
               /\ WEBSOCKET_CLIENT' = NoConnection
               /\ ~transportOpen'
               /\ RECONNECT_ATTEMPTS' =
                     (IF pc = "connected" THEN 0 ELSE RECONNECT_ATTEMPTS) + 1
          /\ (pc = "sleep" /\ pc' # pc) =>
               pc' = "loop" /\ RECONNECT_ATTEMPTS' = RECONNECT_ATTEMPTS
          /\ (pc = "loop" /\ pc' # pc) =>
               /\ RECONNECT_ATTEMPTS < MAX_RECONNECT_ATTEMPTS => pc' = "authorize"
               /\ RECONNECT_ATTEMPTS >= MAX_RECONNECT_ATTEMPTS => pc' = "stopped"
          /\ (pc' = "connect" /\ pc # "connect") =>
               /\ pc = "authorize"
               /\ wss_url' = get_market_data_feed_authorize_url(lastAuth')
          /\ wss_url' # wss_url => pc = "authorize"]_vars
    /\ (pc = "sleep" /\ RECONNECT_ATTEMPTS < MAX_RECONNECT_ATTEMPTS) ~> (pc = "authorize")
    /\ (pc = "sleep" /\ RECONNECT_ATTEMPTS >= MAX_RECONNECT_ATTEMPTS) ~> (pc = "stopped")

C26_Witness ==
    /\ pc = "connect"
    /\ attempts = 2
    /\ RECONNECT_ATTEMPTS = 1
    /\ exc = None
    /\ lastAuth = "ok"
    /\ opens = 0

----------------------------------------------------------------------------
\* Squeeze history: database.py, save_current_squeeze_list_to_db and
\* load_previous_squeeze_list_from_db

\* save calls modelled (each reads a later clock value)
MaxScans == 3

\* the records of the module's own test (lines 202-205), volatility in tenths
SqueezeRecords ==
    [RELIANCE |-> [ticker |-> "RELIANCE", timeframe |-> "15m", volatility |-> 8],
     INFY |-> [ticker |-> "INFY", timeframe |-> "Daily", volatility |-> 12]]

\* lists a scan can hand over: no stock in a squeeze, one, or the test's two
Scans ==
    {<<>>, <<SqueezeRecords.INFY>>, <<SqueezeRecords.RELIANCE, SqueezeRecords.INFY>>}

\* line 127: "if not squeeze_records: return"
EmptyList(squeeze_records) == squeeze_records = <<>>

\* lines 131-134: (now, r['ticker'], r['timeframe'], r['volatility'])
data_to_insert(scan_timestamp, squeeze_records) ==
    [k \in 1..Len(squeeze_records) |->
        [scan_timestamp |-> scan_timestamp, ticker |-> squeeze_records[k].ticker,
         timeframe |-> squeeze_records[k].timeframe,
         volatility |-> squeeze_records[k].volatility]]

\* lines 123-146; a sqlite3.Error is printed and nothing is committed
save_current_squeeze_list_to_db(squeeze_records, dbOk) ==
    /\ now < MaxScans
    /\ now' = now + 1
    /\ IF EmptyList(squeeze_records)
       THEN /\ lastScan' = squeeze_records
            /\ UNCHANGED squeeze_history
       ELSE IF dbOk
       THEN /\ squeeze_history' = squeeze_history \o data_to_insert(now', squeeze_records)
            /\ lastScan' = squeeze_records
       ELSE UNCHANGED <<squeeze_history, lastScan>>
    /\ UNCHANGED <<feedVars, startVars, alertVars, dashVars, dbVars, aggVars, loaded, loadTick>>

\* line 156: SELECT MAX(scan_timestamp) FROM squeeze_history: the one-column row
\* cursor.fetchone() returns, <<>> standing for the row of an empty table (NULL)
MaxScanTimestamp(table) ==
    IF table = <<>>
    THEN <<>>
    ELSE <<CHOOSE t \in {table[k].scan_timestamp : k \in 1..Len(table)} :
              \A k \in 1..Len(table) : table[k].scan_timestamp <= t>>

IsLastScan(row, last_timestamp) == <<row.scan_timestamp>> = last_timestamp

\* lines 162-163: the rows WHERE scan_timestamp = ?, in id order, as
\* (ticker, timeframe, volatility) tuples
SelectScan(table, last_timestamp) ==
    LET rows == SelectSeq(table, LAMBDA row : IsLastScan(row, last_timestamp))
    IN  [k \in 1..Len(rows) |-> <<rows[k].ticker, rows[k].timeframe, rows[k].volatility>>]

\* lines 148-166; a sqlite3.Error is printed and [] returned
load_previous_squeeze_list_from_db(dbOk) ==
    /\ loadTick' = ~loadTick
    /\ loaded' =
          IF ~dbOk
          THEN [result |-> <<>>, error |-> TRUE]
          ELSE IF MaxScanTimestamp(squeeze_history) = <<>>
          THEN [result |-> <<>>, error |-> FALSE]
          ELSE [result |-> SelectScan(squeeze_history, MaxScanTimestamp(squeeze_history)),
                error |-> FALSE]
    /\ UNCHANGED <<feedVars, startVars, alertVars, dashVars, dbVars, aggVars, squeeze_history, now,
                   lastScan>>

SqueezeNext ==
    \/ \E squeeze_records \in Scans, dbOk \in BOOLEAN :
          save_current_squeeze_list_to_db(squeeze_records, dbOk)
    \/ \E dbOk \in BOOLEAN : load_previous_squeeze_list_from_db(dbOk)

SqueezeSpec == Init /\ [][SqueezeNext]_vars

\* the (ticker, timeframe, volatility) tuples of a list of records
AsTuples(squeeze_records) ==
    [k \in 1..Len(squeeze_records) |->
        <<squeeze_records[k].ticker, squeeze_records[k].timeframe,
          squeeze_records[k].volatility>>]

\* C29: a load that meets no database error returns exactly the records that
\* were passed to the most recent save call, all of them and in their order,
\* and the empty list when no save has been made.
C29_LoadReturnsLastScan ==
    [][(loadTick' # loadTick /\ ~loaded'.error) =>
          loaded'.result = AsTuples(lastScan)]_vars

\* C30: the connection handle is set only inside an open session: wherever
\* the manager is not started, checking its loop, authorizing, connecting,
\* waiting, stopped or ended by an exception the handle is None; a handle that
\* is set is the connection of the latest session opened; and a subscribe call
\* that sends does so on that connection, while the session is open.
C30_HandleOnlyInSession ==
    /\ [](pc \in {"idle", "loop", "authorize", "connect", "sleep", "stopped", "raised"}
             => WEBSOCKET_CLIENT = NoConnection)
    /\ [](WEBSOCKET_CLIENT # NoConnection => WEBSOCKET_CLIENT = <<opens>>)
    /\ [][(callTick' # callTick /\ sent' # sent) =>
             /\ pc \in {"connected", "listening"}
             /\ transportOpen
             /\ LastSent(sent').conn = opens]_vars

C30_Witness ==
    /\ opens = 2
    /\ pc = "listening"
    /\ fails = 0
    /\ Len(sent) = 1
    /\ sent[1].conn = 2
    /\ lastCall.outcome = "sent"

----------------------------------------------------------------------------
(* Feed thread start-up: main.py main, callback and start_wss_thread, with the
   /callback requests served concurrently and every feed thread they start
   running start_wss_connection on the module globals of wss_handler.py *)

\* feed threads created in one run
MaxThreads == 2

\* Flask serves each request in a thread of its own
Requests == {"r1", "r2"}

\* the feed variables the start-up leaves alone
feedRest == <<pc, ACTIVE_SUBSCRIPTIONS, wss_url, transportOpen, sent, processed,
              lastAuth, exc, lastFrame, attempts, fails, opens, startCounter, restarted,
              lastCall, callTick, failedSinceOpen>>

\* how an attempt of a feed thread ends before or after its transport opened
AttemptOutcomes == {"open", "ApiException", "OSError"}

SessionOutcomes == {"ConnectionClosed"}

\* main.py line 25: wss_thread = None
NoThread == <<>>

\* Thread.is_alive(): started and its target has not returned
is_alive(t) == threads[t].at # "dead"

\* main.py line 149: wss_thread is None or not wss_thread.is_alive()
NeedsThread(thread) == thread = NoThread \/ ~is_alive(thread[1])

AliveThreads == {t \in 1..Len(threads) : is_alive(t)}

\* lines 196-206: Thread(target=run_async_loop, daemon=True).start(); the new
\* thread is at the first line of start_wss_connection
NewThread == [at |-> "loop", seen |-> 0, clause |-> None]

\* main(), lines 220-223: the token is in the environment and the thread is
\* started and stored before app.run serves any request
main_start(tokenInEnv) ==
    /\ ~mainRan
    /\ mainRan' = TRUE
    /\ IF tokenInEnv
       THEN /\ threads' = Append(threads, NewThread)
            /\ wss_thread' = <<Len(threads')>>
       ELSE UNCHANGED <<threads, wss_thread>>
    /\ UNCHANGED <<feedRest, RECONNECT_ATTEMPTS, WEBSOCKET_CLIENT, requests, tasks, lastAlert,
                   dashVars, storeVars>>

\* callback(), lines 143-149: the request carries a code, the login returns an
\* access token and the test of line 149 is made
callback_check(r) ==
    /\ mainRan
    /\ requests[r].at = "idle"
    /\ requests' = [requests EXCEPT ![r].at =
                       IF NeedsThread(wss_thread) THEN "start" ELSE "respond"]
    /\ UNCHANGED <<feedVars, threads, wss_thread, tasks, lastAlert, dashVars, storeVars>>

\* line 151, right-hand side: start_wss_thread(...) creates and starts the thread
callback_start(r) ==
    /\ requests[r].at = "start"
    /\ Len(threads) < MaxThreads
    /\ threads' = Append(threads, NewThread)
    /\ requests' = [requests EXCEPT ![r] = [at |-> "assign", thread |-> <<Len(threads')>>]]
    /\ UNCHANGED <<feedVars, wss_thread, tasks, lastAlert, dashVars, storeVars>>

\* line 151, the assignment to the global, then the sleep of line 152
callback_assign(r) ==
    /\ requests[r].at = "assign"
    /\ wss_thread' = requests[r].thread
    /\ requests' = [requests EXCEPT ![r].at = "respond"]
    /\ UNCHANGED <<feedVars, threads, tasks, lastAlert, dashVars, storeVars>>

\* lines 153-156: the response is returned; the request thread serves the next
callback_respond(r) ==
    /\ requests[r].at = "respond"
    /\ requests' = [requests EXCEPT ![r] = [at |-> "idle", thread |-> NoThread]]
    /\ UNCHANGED <<feedVars, threads, wss_thread, tasks, lastAlert, dashVars, storeVars>>

\* wss_handler.py line 110, in feed thread t
thread_loop(t) ==
    /\ threads[t].at = "loop"
    /\ threads' = [threads EXCEPT ![t].at =
                      IF LoopGuard(RECONNECT_ATTEMPTS) THEN "attempt" ELSE "dead"]
    /\ UNCHANGED <<feedVars, wss_thread, requests, tasks, lastAlert, dashVars, storeVars>>

\* the except clause that took e, then line 166 and the read of the counter by
\* "RECONNECT_ATTEMPTS += 1"
thread_raise(t, e) ==
    /\ threads' = [threads EXCEPT ![t] = [at |-> "finally", seen |-> RECONNECT_ATTEMPTS,
                                          clause |-> ExceptClause(e)]]
    /\ WEBSOCKET_CLIENT' = FinallyClient(WEBSOCKET_CLIENT)
    /\ UNCHANGED RECONNECT_ATTEMPTS

\* lines 117-132 in feed thread t: authorize and connect
thread_attempt(t, outcome) ==
    /\ threads[t].at = "attempt"
    /\ IF outcome = "open"
       THEN /\ threads' = [threads EXCEPT ![t].at = "session"]
            /\ WEBSOCKET_CLIENT' = <<t>>
            /\ RECONNECT_ATTEMPTS' = ResetOnOpen(RECONNECT_ATTEMPTS)
       ELSE thread_raise(t, outcome)
    /\ UNCHANGED <<feedRest, mainRan, wss_thread, requests, tasks, lastAlert, dashVars,
                   storeVars>>

\* lines 135-154 in feed thread t: the session ends with an exception
thread_session(t, e) ==
    /\ threads[t].at = "session"
    /\ thread_raise(t, e)
    /\ UNCHANGED <<feedRest, mainRan, wss_thread, requests, tasks, lastAlert, dashVars,
                   storeVars>>

\* line 168, the write of "RECONNECT_ATTEMPTS += 1", then the break of line 158
\* or the sleep of line 171 and the return to line 110
thread_finally(t) ==
    /\ threads[t].at = "finally"
    /\ RECONNECT_ATTEMPTS' = FinallyCounter(threads[t].seen)
    /\ threads' = [threads EXCEPT ![t] =
                      [at |-> IF threads[t].clause = "break" THEN "dead" ELSE "loop",
                       seen |-> 0, clause |-> None]]
    /\ UNCHANGED <<feedRest, mainRan, WEBSOCKET_CLIENT, wss_thread, requests, tasks,
                   lastAlert, dashVars, storeVars>>

StartNext ==
    \/ \E tokenInEnv \in BOOLEAN : main_start(tokenInEnv)
    \/ \E r \in Requests : callback_check(r)
    \/ \E r \in Requests : callback_start(r)
    \/ \E r \in Requests : callback_assign(r)
    \/ \E r \in Requests : callback_respond(r)
    \/ \E t \in 1..Len(threads) : thread_loop(t)
    \/ \E t \in 1..Len(threads), outcome \in AttemptOutcomes : thread_attempt(t, outcome)
    \/ \E t \in 1..Len(threads), e \in SessionOutcomes : thread_session(t, e)
    \/ \E t \in 1..Len(threads) : thread_finally(t)

StartSpec == Init /\ [][StartNext]_vars

C33_OneFeedThread ==
    Cardinality(AliveThreads) <= 1

\* C32: a subscribe call whose send fails returns normally and leaves the
\* manager, the connection handle, its transport and the retry counter as they
\* were, with the instrument in the registry; and the step in which a later
\* connection, established on an open transport, leaves its setup sends on it a
\* resubscribe-all message that lists the instrument of the latest subscribe
\* call whose send failed.
C32_FailedSendReplayed ==
    [][/\ (callTick' # callTick /\ lastCall'.outcome = "send_failed") =>
             /\ lastCall'.ret = None
             /\ pc' = pc
             /\ WEBSOCKET_CLIENT' = WEBSOCKET_CLIENT
             /\ transportOpen' = transportOpen
             /\ RECONNECT_ATTEMPTS' = RECONNECT_ATTEMPTS
             /\ exc' = exc
             /\ get_instrument_key(lastCall'.symbol) \in ACTIVE_SUBSCRIPTIONS'
       /\ (lastCall.outcome = "send_failed" /\ callTick' = callTick) =>
             get_instrument_key(lastCall.symbol) \in ACTIVE_SUBSCRIPTIONS'
       /\ (lastCall.outcome = "send_failed" /\ pc = "connected" /\ transportOpen
           /\ pc' # pc) =>
             \E i \in (Len(sent) + 1)..Len(sent') :
                /\ sent'[i].guid = "resub-guid"
                /\ sent'[i].conn = opens
                /\ get_instrument_key(lastCall.symbol) \in sent'[i].instrumentKeys]_vars

\* C34: a step in which websocket_handler ends for a client, on a message that
\* is not JSON, on a send that finds the connection closed or on the close of
\* the connection, takes exactly that one client out of the registry and leaves
\* every other client registered with the subscription set it had.
C34_HandlerEndDeregisters ==
    [][/\ (msgTick' # msgTick /\ lastMsg'.outcome \in {"JSONDecodeError", "ConnectionClosed"}) =>
             \E c \in DOMAIN WEBSOCKET_CLIENTS :
                DOMAIN WEBSOCKET_CLIENTS' = (DOMAIN WEBSOCKET_CLIENTS) \ {c}
       /\ DOMAIN WEBSOCKET_CLIENTS' # DOMAIN WEBSOCKET_CLIENTS =>
             Cardinality((DOMAIN WEBSOCKET_CLIENTS) \ (DOMAIN WEBSOCKET_CLIENTS')) <= 1
       /\ (DOMAIN WEBSOCKET_CLIENTS) \ (DOMAIN WEBSOCKET_CLIENTS') # {} =>
             /\ DOMAIN WEBSOCKET_CLIENTS' \subseteq DOMAIN WEBSOCKET_CLIENTS
             /\ \A x \in DOMAIN WEBSOCKET_CLIENTS' :
                   WEBSOCKET_CLIENTS'[x] = WEBSOCKET_CLIENTS[x]]_vars

C34_Witness ==
    /\ lastMsg.outcome = "JSONDecodeError"
    /\ DOMAIN WEBSOCKET_CLIENTS = {"ws2"}
    /\ WEBSOCKET_CLIENTS["ws2"] = {"INFY"}
    /\ subscription_queue = <<"INFY">>

\* C35: every send of a broadcast is made to a client that is registered when
\* the send is made and, when the event carries a symbol, has that symbol in
\* its subscription set at that moment.
C35_SendsOnlyToRegistered ==
    [][\A c \in bcast.pending \ bcast'.pending :
          /\ c \in DOMAIN WEBSOCKET_CLIENTS
          /\ bcast.symbol # None => bcast.symbol \in WEBSOCKET_CLIENTS[c]]_vars

=============================================================================
